---------------------------- MODULE Spec2Model ----------------------------
(***************************************************************************)
(* A model of process_pdfs.py: the heading classifier is_heading_text, the *)
(* title/outline extraction extract_title_and_headings and the batch       *)
(* driver main.  Strings are sequences of one-character strings, so that   *)
(* strip, lower, the regular expressions and the str predicates are        *)
(* computed character by character as Python computes them.                *)
(***************************************************************************)
EXTENDS Integers, Sequences, FiniteSets, TLC

VARIABLES
    text,          \* is_heading_text: the argument
    verdict,       \* is_heading_text: "unset", or the value returned ("True", "False")
    text_blocks,   \* extract_title_and_headings: the collected spans
    page_num,      \* extract_title_and_headings: index of the page being read
    epc,           \* extract_title_and_headings: "collect" or "returned"
    metadata,      \* doc.metadata.get("title", "") as read at line 81
    result,        \* the value extract_title_and_headings returned
    input_exists,  \* main: os.path.exists(input_dir)
    input_dir,     \* main: the input directory, file name -> content
    output_dir,    \* main: the output directory, file name -> content written
    mpc,           \* main: where the run is
    todo,          \* main: the names os.listdir has still to yield
    filename,      \* main: the loop variable
    stdout,        \* main: the lines printed by this run
    run,           \* the number of the current run of main
    first_out      \* the output directory as the first run left it

classifier == <<text, verdict>>
extractor  == <<text_blocks, page_num, epc, metadata>>
driver     == <<input_exists, input_dir, output_dir, mpc, todo, filename,
                stdout, run, first_out>>

vars == <<text, verdict, text_blocks, page_num, epc, metadata, result,
          input_exists, input_dir, output_dir, mpc, todo, filename,
          stdout, run, first_out>>

-----------------------------------------------------------------------------
(* Characters and the str methods / regular expressions the code uses.     *)

UpperSeq == <<"A","B","C","D","E","F","G","H","I","J","K","L","M",
              "N","O","P","Q","R","S","T","U","V","W","X","Y","Z">>
LowerSeq == <<"a","b","c","d","e","f","g","h","i","j","k","l","m",
              "n","o","p","q","r","s","t","u","v","w","x","y","z">>

UpperCh == {UpperSeq[i] : i \in DOMAIN UpperSeq}
LowerCh == {LowerSeq[i] : i \in DOMAIN LowerSeq}
DigitCh == {"0","1","2","3","4","5","6","7","8","9"}
SpaceCh == {" ", "\t", "\n"}

\* a letter without case (the Hebrew alef): str.isupper, str.istitle and
\* str.lower treat it as they treat a digit
UncasedLetterCh == {"<U+05D0>"}

IsCased(c) == c \in UpperCh \/ c \in LowerCh

\* str.lower() on one character
LowerOf(c) ==
    IF c \in UpperCh
    THEN LowerSeq[CHOOSE i \in DOMAIN UpperSeq : UpperSeq[i] = c]
    ELSE c

\* str.lower()
Lower(s) == [i \in DOMAIN s |-> LowerOf(s[i])]

\* str.strip(): drop leading and trailing whitespace
Strip(s) ==
    LET keep == {i \in DOMAIN s : s[i] \notin SpaceCh} IN
    IF keep = {} THEN <<>>
    ELSE LET lo == CHOOSE i \in keep : \A j \in keep : i <= j
             hi == CHOOSE i \in keep : \A j \in keep : j <= i
         IN  SubSeq(s, lo, hi)

\* str.isupper(): at least one cased character and no lower-case one
IsUpper(s) ==
    /\ \E i \in DOMAIN s : IsCased(s[i])
    /\ \A i \in DOMAIN s : s[i] \notin LowerCh

\* str.istitle(): upper-case characters only after uncased ones, lower-case
\* characters only after cased ones, and at least one cased character
IsTitle(s) ==
    /\ \E i \in DOMAIN s : IsCased(s[i])
    /\ \A i \in DOMAIN s :
          /\ s[i] \in UpperCh => (i = 1 \/ ~IsCased(s[i-1]))
          /\ s[i] \in LowerCh => (i > 1 /\ IsCased(s[i-1]))

\* re.match(r'^\d+$', s) on a stripped string
MatchDigits(s) == Len(s) > 0 /\ \A i \in DOMAIN s : s[i] \in DigitCh

\* re.match(r'^\d+/\d+/\d+$', s) on a stripped string
MatchDate(s) ==
    \E i, j \in DOMAIN s :
        /\ i < j
        /\ s[i] = "/" /\ s[j] = "/"
        /\ MatchDigits(SubSeq(s, 1, i-1))
        /\ MatchDigits(SubSeq(s, i+1, j-1))
        /\ MatchDigits(SubSeq(s, j+1, Len(s)))

\* re.match(r'^[\d\.\s]+[A-Z]', s)
MatchNumbering(s) ==
    \E k \in DOMAIN s :
        /\ k > 1
        /\ s[k] \in UpperCh
        /\ \A i \in 1..(k-1) : s[i] \in DigitCh \/ s[i] = "." \/ s[i] \in SpaceCh

\* the Python expression  w in s  for strings
Contains(s, w) ==
    \E i \in 0..(Len(s) - Len(w)) : SubSeq(s, i+1, i+Len(w)) = w

heading_words ==
    { <<"i","n","t","r","o","d","u","c","t","i","o","n">>,
      <<"c","o","n","c","l","u","s","i","o","n">>,
      <<"c","h","a","p","t","e","r">>,
      <<"s","e","c","t","i","o","n">>,
      <<"a","p","p","e","n","d","i","x">>,
      <<"r","e","f","e","r","e","n","c","e","s">>,
      <<"b","i","b","l","i","o","g","r","a","p","h","y">>,
      <<"i","n","d","e","x">>,
      <<"a","b","s","t","r","a","c","t">>,
      <<"s","u","m","m","a","r","y">> }

\* A plausible slip: the all-caps acceptance rule (lines 25-26) left out.
is_heading_text_nocaps(t) ==
    LET text_clean == Strip(t) IN
    IF t = <<>> \/ Len(text_clean) < 2 THEN FALSE
    ELSE IF MatchDigits(text_clean) THEN FALSE
    ELSE IF MatchDate(text_clean) THEN FALSE
    ELSE IF Len(text_clean) < 3 THEN FALSE
    ELSE IF IsTitle(text_clean) /\ 3 <= Len(text_clean) /\ Len(text_clean) <= 100
         THEN TRUE
    ELSE IF MatchNumbering(text_clean) THEN TRUE
    ELSE \E w \in heading_words : Contains(Lower(text_clean), w)

is_heading_text(t) ==
    LET text_clean == Strip(t) IN
    IF t = <<>> \/ Len(text_clean) < 2 THEN FALSE
    ELSE IF MatchDigits(text_clean) THEN FALSE
    ELSE IF MatchDate(text_clean) THEN FALSE
    ELSE IF Len(text_clean) < 3 THEN FALSE
    ELSE IF IsUpper(text_clean) /\ Len(text_clean) > 2 THEN TRUE
    ELSE IF IsTitle(text_clean) /\ 3 <= Len(text_clean) /\ Len(text_clean) <= 100
         THEN TRUE
    ELSE IF MatchNumbering(text_clean) THEN TRUE
    ELSE \E w \in heading_words : Contains(Lower(text_clean), w)

-----------------------------------------------------------------------------
(* extract_title_and_headings, lines 74-137: a function of the collected   *)
(* spans and of the metadata title.  A span is [text, size, page, y] with  *)
(* y = bbox[1]; flags, font, is_bold and is_italic are stored by the code  *)
(* and never read.                                                         *)

Unknown      == <<"U","n","k","n","o","w","n">>
UnknownTitle == <<"U","n","k","n","o","w","n"," ","T","i","t","l","e">>

Min(a, b) == IF a < b THEN a ELSE b

\* the sort key of line 86, (-size, bbox[1]), compared as Python compares tuples
TitleKeyLess(a, b) == a.size > b.size \/ (a.size = b.size /\ a.y < b.y)

\* list.sort(key=...) of line 86: a stable sort, here by insertion
RECURSIVE InsertByTitleKey(_, _)
InsertByTitleKey(sorted, b) ==
    IF sorted = <<>> THEN <<b>>
    ELSE IF TitleKeyLess(b, sorted[Len(sorted)])
         THEN Append(InsertByTitleKey(SubSeq(sorted, 1, Len(sorted)-1), b),
                     sorted[Len(sorted)])
         ELSE Append(sorted, b)

RECURSIVE SortFirstPage(_)
SortFirstPage(blocks) ==
    IF blocks = <<>> THEN <<>>
    ELSE InsertByTitleKey(SortFirstPage(SubSeq(blocks, 1, Len(blocks)-1)),
                          blocks[Len(blocks)])

FirstPageBlocks(blocks) == SelectSeq(blocks, LAMBDA b : b.page = 1)

\* lines 81-95
ResolveTitle(blocks, meta) ==
    LET first_page_blocks == SortFirstPage(FirstPageBlocks(blocks))
        top  == SubSeq(first_page_blocks, 1, Min(5, Len(first_page_blocks)))
        good == {i \in DOMAIN top :
                    is_heading_text(top[i].text) /\ Len(top[i].text) > 3}
        scanned == IF good = {} THEN meta
                   ELSE top[CHOOSE i \in good : \A j \in good : i <= j].text
    IN  IF meta = <<>> \/ meta = Unknown
        THEN IF first_page_blocks # <<>>
             THEN IF scanned = <<>> \/ Len(scanned) < 3
                  THEN first_page_blocks[1].text
                  ELSE scanned
             ELSE meta
        ELSE meta

\* A plausible slip: size_groups filled from every span, not only from
\* those that pass is_heading_text (line 103 left out).
GroupedSizesAll(blocks) == {blocks[i].size : i \in DOMAIN blocks}

\* lines 101-104: the keys of size_groups
GroupedSizes(blocks) ==
    {blocks[i].size : i \in {j \in DOMAIN blocks : is_heading_text(blocks[j].text)}}

\* sorted(..., reverse=True) of line 107
RECURSIVE SortDesc(_)
SortDesc(S) ==
    IF S = {} THEN <<>>
    ELSE LET m == CHOOSE x \in S : \A y \in S : y <= x
         IN  <<m>> \o SortDesc(S \ {m})

LevelName(i) == IF i = 1 THEN "H1" ELSE IF i = 2 THEN "H2" ELSE "H3"

\* lines 107-117: heading_levels, a dict from font size to level
HeadingLevels(blocks) ==
    LET font_sizes == SortDesc(GroupedSizes(blocks))
        top3 == SubSeq(font_sizes, 1, Min(3, Len(font_sizes)))
    IN  [s \in {top3[i] : i \in DOMAIN top3} |->
            LevelName(CHOOSE i \in DOMAIN top3 : top3[i] = s)]

\* A plausible slip: the title is not kept out of the outline (line 123 left out).
IsOutlineBlockNoTitleTest(b, heading_levels, title) ==
    /\ is_heading_text(b.text)
    /\ b.size \in DOMAIN heading_levels

\* the condition of lines 121-123
IsOutlineBlock(b, heading_levels, title) ==
    /\ is_heading_text(b.text)
    /\ b.size \in DOMAIN heading_levels
    /\ b.text # title

\* lines 120-129: the headings in the order of text_blocks
RECURSIVE Headings(_, _, _)
Headings(blocks, heading_levels, title) ==
    IF blocks = <<>> THEN <<>>
    ELSE LET b    == blocks[Len(blocks)]
             rest == Headings(SubSeq(blocks, 1, Len(blocks)-1), heading_levels, title)
         IN  IF IsOutlineBlock(b, heading_levels, title)
             THEN Append(rest, [level |-> heading_levels[b.size],
                                text  |-> b.text,
                                page  |-> b.page])
             ELSE rest

\* Python's < on the level strings "H1", "H2", "H3": they differ in the digit
LevelRank(l) == IF l = "H1" THEN 1 ELSE IF l = "H2" THEN 2 ELSE 3

\* the sort key of line 132, (page, level)
HeadingKeyLess(a, b) ==
    a.page < b.page \/ (a.page = b.page /\ LevelRank(a.level) < LevelRank(b.level))

RECURSIVE InsertByHeadingKey(_, _)
InsertByHeadingKey(sorted, h) ==
    IF sorted = <<>> THEN <<h>>
    ELSE IF HeadingKeyLess(h, sorted[Len(sorted)])
         THEN Append(InsertByHeadingKey(SubSeq(sorted, 1, Len(sorted)-1), h),
                     sorted[Len(sorted)])
         ELSE Append(sorted, h)

\* A plausible slip: the headings are returned unsorted (line 132 left out).
SortHeadingsSkipped(headings) == headings

\* headings.sort(key=...) of line 132: a stable sort
RECURSIVE SortHeadings(_)
SortHeadings(headings) ==
    IF headings = <<>> THEN <<>>
    ELSE InsertByHeadingKey(SortHeadings(SubSeq(headings, 1, Len(headings)-1)),
                            headings[Len(headings)])

\* lines 74-137
ExtractResult(blocks, meta) ==
    IF blocks = <<>>
    THEN [title |-> UnknownTitle, outline |-> <<>>]
    ELSE LET title == ResolveTitle(blocks, meta)
         IN  [title   |-> title,
              outline |-> SortHeadings(Headings(blocks, HeadingLevels(blocks), title))]

-----------------------------------------------------------------------------
(* The pieces of main, lines 139-182: file names, the collector loop run   *)
(* over a whole document, and json.dump.                                   *)

\* str.endswith
EndsWith(s, suffix) ==
    /\ Len(s) >= Len(suffix)
    /\ SubSeq(s, Len(s) - Len(suffix) + 1, Len(s)) = suffix

\* line 156: filename.lower().endswith(".pdf")
IsPdfName(name) == EndsWith(Lower(name), <<".","p","d","f">>)

\* lines 163 and 179: filename.rsplit(".", 1)[0] + ".json"
OutputName(name) ==
    LET dots == {i \in DOMAIN name : name[i] = "."}
        stem == IF dots = {} THEN name
                ELSE SubSeq(name, 1, (CHOOSE i \in dots : \A j \in dots : j <= i) - 1)
    IN  stem \o <<".","j","s","o","n">>

\* lines 57-72 for the spans of one page, in order
RECURSIVE CollectPage(_, _)
CollectPage(spans, pageno) ==
    IF spans = <<>> THEN <<>>
    ELSE LET span == spans[Len(spans)]
             rest == CollectPage(SubSeq(spans, 1, Len(spans)-1), pageno)
             t    == Strip(span.text)
         IN  IF t # <<>>
             THEN Append(rest, [text |-> t, size |-> span.size,
                                page |-> pageno, y |-> span.y])
             ELSE rest

\* lines 51-72: text_blocks after the first n pages
RECURSIVE CollectPages(_, _)
CollectPages(pages, n) ==
    IF n = 0 THEN <<>>
    ELSE CollectPages(pages, n-1) \o CollectPage(pages[n], n)

\* extract_title_and_headings(pdf_path) for a document that opens
ExtractDocument(doc) ==
    ExtractResult(CollectPages(doc.pages, Len(doc.pages)), doc.meta)

\* a code point UTF-8 cannot encode: f.write raises UnicodeEncodeError on it
LoneSurrogate == "<U+D800>"

\* json.encoder.encode_basestring: quotes, with the escapes of ", \ and
\* of the control characters
RECURSIVE Escaped(_)
Escaped(s) ==
    IF s = <<>> THEN <<>>
    ELSE LET c == s[1]
             e == IF c = "\"" THEN <<"\\", "\"">>
                  ELSE IF c = "\\" THEN <<"\\", "\\">>
                  ELSE IF c = "\n" THEN <<"\\", "n">>
                  ELSE IF c = "\t" THEN <<"\\", "t">>
                  ELSE <<c>>
         IN  e \o Escaped(Tail(s))

Quoted(s) == <<"\"">> \o Escaped(s) \o <<"\"">>

DigitSeq == <<"0","1","2","3","4","5","6","7","8","9">>

\* str(n) for an integer n >= 0
RECURSIVE IntChars(_)
IntChars(n) ==
    IF n < 10 THEN <<DigitSeq[n + 1]>>
    ELSE IntChars(n \div 10) \o <<DigitSeq[(n % 10) + 1]>>

LevelChars(l) == <<"H", DigitSeq[LevelRank(l) + 1]>>

Indent(n) == [i \in 1..n |-> " "]

\* the chunks json.dump(x, f, indent=2, ensure_ascii=False) hands to
\* f.write for one outline entry
EntryChunks(e) ==
    << <<"{">>, <<"\n">> \o Indent(6),
       Quoted(<<"l","e","v","e","l">>), <<":"," ">>, Quoted(LevelChars(e.level)),
       <<",","\n">> \o Indent(6),
       Quoted(<<"t","e","x","t">>), <<":"," ">>, Quoted(e.text),
       <<",","\n">> \o Indent(6),
       Quoted(<<"p","a","g","e">>), <<":"," ">>, IntChars(e.page),
       <<"\n">> \o Indent(4), <<"}">> >>

RECURSIVE OutlineChunks(_)
OutlineChunks(outline) ==
    IF Len(outline) = 1 THEN EntryChunks(outline[1])
    ELSE OutlineChunks(SubSeq(outline, 1, Len(outline)-1))
           \o << <<",","\n">> \o Indent(4) >>
           \o EntryChunks(outline[Len(outline)])

\* the chunks json.dump hands to f.write, in order, for a result
JsonChunks(r) ==
    << <<"{">>, <<"\n">> \o Indent(2),
       Quoted(<<"t","i","t","l","e">>), <<":"," ">>, Quoted(r.title),
       <<",","\n">> \o Indent(2),
       Quoted(<<"o","u","t","l","i","n","e">>), <<":"," ">> >>
    \o (IF r.outline = <<>>
        THEN << <<"[","]">> >>
        ELSE << <<"[","\n">> \o Indent(4) >>
               \o OutlineChunks(r.outline)
               \o << <<"\n">> \o Indent(2), <<"]">> >>)
    \o << <<"\n">>, <<"}">> >>

Encodable(chunk) == \A i \in DOMAIN chunk : chunk[i] # LoneSurrogate

\* What the file holds once the with block of lines 167-168 is left: every
\* chunk when all of them encode, and otherwise the chunks written before
\* the one on which f.write raised.
Written(chunks) ==
    LET bad == {i \in DOMAIN chunks : ~Encodable(chunks[i])} IN
    IF bad = {} THEN chunks
    ELSE SubSeq(chunks, 1, (CHOOSE i \in bad : \A j \in bad : i <= j) - 1)

DumpRaises(chunks) == \E i \in DOMAIN chunks : ~Encodable(chunks[i])

\* lines 175-178
basic_result ==
    [title   |-> <<"E","r","r","o","r"," ","P","r","o","c","e","s","s","i","n","g",
                   " ","D","o","c","u","m","e","n","t">>,
     outline |-> <<>>]

-----------------------------------------------------------------------------
(* Bounds and input sets.                                                  *)

MaxTextLen == 4      \* longest enumerated argument of is_heading_text
MaxSpans   == 4      \* most spans collected from one document
MaxRuns    == 2      \* runs of main on the same input directory

\* the page numbers a document may have: documents of one or two pages
PageNumbers == {1, 2}

Alphabet == {"A", "b", "<U+05D0>", "1", " ", "/", "."}

RECURSIVE StringsUpTo(_)
StringsUpTo(n) ==
    IF n = 0 THEN {<<>>}
    ELSE LET shorter == StringsUpTo(n-1)
         IN  shorter \cup {Append(s, c) : s \in shorter, c \in Alphabet}

INDEX == <<"I","N","D","E","X">>
Abc   == <<"A","b","c">>
page  == <<"p","a","g","e">>

SampleTexts ==
    { <<"I","N","T","R","O","D","U","C","T","I","O","N">>,
      <<"1","."," ","O","v","e","r","v","i","e","w">>,
      <<"a","n"," ","i","n","d","e","x">>,
      <<" ","\t","I","N","D","E","X","\n">>,
      <<"1","2","/","3","1","/","2","0","2","4">>,
      INDEX, Abc, page, Unknown }

\* The spans the library may report: text as returned, before the strip of
\* line 61, with size and y = bbox[1].  Four sizes of one heading text, a
\* second heading text too short to be scanned as a title, a non-heading
\* text, a padded text and a whitespace-only one.
SpanInputs ==
    { [text |-> <<" ","I","N","D","E","X"," ">>, size |-> 16, y |-> 0],
      [text |-> INDEX,   size |-> 14, y |-> 0],
      [text |-> INDEX,   size |-> 12, y |-> 0],
      [text |-> INDEX,   size |-> 10, y |-> 0],
      [text |-> Abc,     size |-> 16, y |-> 1],
      [text |-> page,    size |-> 16, y |-> 0],
      [text |-> <<" ","\t">>, size |-> 12, y |-> 0] }

\* doc.metadata.get("title", ""): absent or empty, the placeholder, a title
MetaTitles == {<<>>, Unknown, Abc}

NoResult == [title |-> <<>>, outline |-> <<>>]

\* The contents a file of the input directory may have: a file fitz.open
\* raises on, the document of the specification's scenario A, a two-page
\* document, a document whose metadata title UTF-8 cannot encode, and, for
\* a name that is not a PDF's, anything.
Corrupt == [kind |-> "corrupt", pages |-> <<>>, meta |-> <<>>]
Other   == [kind |-> "other", pages |-> <<>>, meta |-> <<>>]

ScenarioA ==
    [kind  |-> "pdf",
     pages |-> << << [text |-> <<"I","N","T","R","O","D","U","C","T","I","O","N">>,
                      size |-> 24, y |-> 0],
                     [text |-> <<"1","."," ","O","v","e","r","v","i","e","w">>,
                      size |-> 18, y |-> 1],
                     [text |-> <<"1",".","1"," ","B","a","c","k","g","r","o","u","n","d">>,
                      size |-> 14, y |-> 2] >> >>,
     meta  |-> <<>>]

TwoPages ==
    [kind  |-> "pdf",
     pages |-> << << [text |-> INDEX, size |-> 16, y |-> 0] >>,
                  << [text |-> <<" ","A","b","c","\n">>, size |-> 16, y |-> 1] >> >>,
     meta  |-> <<>>]

BadTitle ==
    [kind  |-> "pdf",
     pages |-> << << [text |-> page, size |-> 16, y |-> 0] >> >>,
     meta  |-> <<"R", LoneSurrogate>>]

PdfContents == {Corrupt, ScenarioA, TwoPages, BadTitle}

FileNames ==
    { <<"a",".","p","d","f">>, <<"a",".","P","D","F">>,
      <<"b",".","p","d","f">>, <<"n",".","t","x","t">> }

\* the input directories: some of the names, a PDF's content under a name
\* that ends in .pdf and anything under another name
Directories ==
    UNION { [D -> IF \A f \in D : IsPdfName(f) THEN PdfContents
                  ELSE PdfContents \cup {Other}] : D \in SUBSET FileNames }

\* the driver's variables while main is not running
DriverIdle ==
    /\ input_exists = FALSE
    /\ input_dir = <<>>
    /\ output_dir = <<>>
    /\ mpc = "idle"
    /\ todo = {}
    /\ filename = <<>>
    /\ stdout = <<>>
    /\ run = 0
    /\ first_out = <<>>

-----------------------------------------------------------------------------
(* is_heading_text applied to one argument.                                *)

InitHeading ==
    /\ text \in StringsUpTo(MaxTextLen) \cup SampleTexts
    /\ verdict = "unset"
    /\ text_blocks = <<>> /\ page_num = 0 /\ epc = "idle"
    /\ metadata = <<>> /\ result = NoResult
    /\ DriverIdle

Classify ==
    /\ verdict = "unset"
    /\ verdict' = IF is_heading_text(text) THEN "True" ELSE "False"
    /\ UNCHANGED <<text, extractor, result, driver>>

NextHeading == Classify

SpecHeading == InitHeading /\ [][NextHeading]_vars

-----------------------------------------------------------------------------
(* extract_title_and_headings: the collector loop of lines 51-72, one span *)
(* or one page per step, then lines 74-137 in one step.                    *)

Init ==
    /\ text = <<>> /\ verdict = "unset"
    /\ text_blocks = <<>>
    /\ page_num = 0
    /\ epc = "collect"
    /\ metadata = <<>>
    /\ result = NoResult
    /\ DriverIdle

\* lines 60-72: one span of the current page
CollectSpan ==
    /\ epc = "collect"
    /\ page_num + 1 \in PageNumbers
    /\ Len(text_blocks) < MaxSpans
    /\ \E span \in SpanInputs :
          LET t == Strip(span.text) IN
          text_blocks' = IF t # <<>>
                         THEN Append(text_blocks,
                                     [text |-> t, size |-> span.size,
                                      page |-> page_num + 1, y |-> span.y])
                         ELSE text_blocks
    /\ UNCHANGED <<classifier, page_num, epc, metadata, result, driver>>

\* line 51: on to the next page
NextPage ==
    /\ epc = "collect"
    /\ page_num + 1 \in PageNumbers
    /\ page_num' = page_num + 1
    /\ UNCHANGED <<classifier, text_blocks, epc, metadata, result, driver>>

\* lines 74-137, once the loop of line 51 has left the last page: page_num
\* pages were read, and len(doc) is any number the document may have
Return ==
    /\ epc = "collect"
    /\ page_num >= 1
    /\ \A i \in DOMAIN text_blocks : text_blocks[i].page <= page_num
    /\ \E meta \in MetaTitles :
          /\ metadata' = meta
          /\ result' = ExtractResult(text_blocks, meta)
    /\ epc' = "returned"
    /\ UNCHANGED <<classifier, text_blocks, page_num, driver>>

Next == CollectSpan \/ NextPage \/ Return

Spec == Init /\ [][Next]_vars

-----------------------------------------------------------------------------
(* main, lines 139-182: runs of the batch driver on one input directory.   *)
(* os.listdir returns the names in arbitrary order, so the loop takes any  *)
(* name not yet taken.  open(path, "w") truncates the file; the chunks of  *)
(* json.dump reach it when the with block is left.                         *)

InitMain ==
    /\ text = <<>> /\ verdict = "unset"
    /\ text_blocks = <<>> /\ page_num = 0 /\ epc = "idle" /\ metadata = <<>>
    /\ result = NoResult
    /\ input_exists \in BOOLEAN
    /\ input_dir \in {d \in Directories :
                        /\ ~input_exists => d = <<>>
                        /\ \A f \in DOMAIN d : d[f] = Other <=> ~IsPdfName(f)}
    /\ output_dir = <<>>
    /\ mpc = "start"
    /\ todo = {}
    /\ filename = <<>>
    /\ stdout = <<>>
    /\ run = 1
    /\ first_out = <<>>

Line(msg, name) == [msg |-> msg, file |-> name]

\* lines 146-155: the input directory is missing, or it is listed
Start ==
    /\ mpc = "start"
    /\ IF input_exists
       THEN /\ todo' = DOMAIN input_dir
            /\ mpc' = "loop"
            /\ UNCHANGED stdout
       ELSE /\ stdout' = Append(stdout, Line("Error: Input directory does not exist", <<>>))
            /\ mpc' = "done"
            /\ UNCHANGED todo
    /\ UNCHANGED <<classifier, extractor, result, input_exists, input_dir,
                   output_dir, filename, run, first_out>>

\* lines 155-157: the next name of the listing
LoopNext ==
    /\ mpc = "loop"
    /\ \E name \in todo :
          /\ todo' = todo \ {name}
          /\ filename' = name
          /\ mpc' = IF IsPdfName(name) THEN "try" ELSE "loop"
    /\ UNCHANGED <<classifier, extractor, result, input_exists, input_dir,
                   output_dir, stdout, run, first_out>>

\* line 155: the listing is exhausted and main returns
LoopEnd ==
    /\ mpc = "loop"
    /\ todo = {}
    /\ mpc' = "done"
    /\ UNCHANGED <<classifier, extractor, result, input_exists, input_dir,
                   output_dir, todo, filename, stdout, run, first_out>>

\* lines 160-167: extraction raises, or the result is computed and the
\* output file is opened for writing
TryExtract ==
    /\ mpc = "try"
    /\ IF input_dir[filename].kind = "corrupt"
       THEN /\ mpc' = "except"
            /\ UNCHANGED <<result, output_dir>>
       ELSE /\ result' = ExtractDocument(input_dir[filename])
            /\ output_dir' = (OutputName(filename) :> <<>>) @@ output_dir
            /\ mpc' = "dump"
    /\ UNCHANGED <<classifier, extractor, input_exists, input_dir, todo,
                   filename, stdout, run, first_out>>

\* lines 168-170: json.dump, the file is closed, the success line is printed
Dump ==
    /\ mpc = "dump"
    /\ LET chunks == JsonChunks(result) IN
          /\ output_dir' = (OutputName(filename) :> Written(chunks)) @@ output_dir
          /\ IF DumpRaises(chunks)
             THEN /\ mpc' = "except"
                  /\ UNCHANGED stdout
             ELSE /\ mpc' = "loop"
                  /\ stdout' = Append(stdout, Line("Processed", filename))
    /\ UNCHANGED <<classifier, extractor, result, input_exists, input_dir, todo,
                   filename, run, first_out>>

\* lines 172-181: the handler prints the error line and opens the output file
Except ==
    /\ mpc = "except"
    /\ stdout' = Append(stdout, Line("Error processing", filename))
    /\ output_dir' = (OutputName(filename) :> <<>>) @@ output_dir
    /\ mpc' = "except_dump"
    /\ UNCHANGED <<classifier, extractor, result, input_exists, input_dir, todo,
                   filename, run, first_out>>

\* A plausible slip: the handler writes nothing into the file it opened.
ExceptDumpNothing ==
    /\ mpc = "except_dump"
    /\ mpc' = "loop"
    /\ UNCHANGED <<classifier, extractor, result, input_exists, input_dir,
                   output_dir, todo, filename, stdout, run, first_out>>

\* line 182: the handler dumps basic_result, and the loop goes on
ExceptDump ==
    /\ mpc = "except_dump"
    /\ output_dir' = (OutputName(filename) :> Written(JsonChunks(basic_result)))
                        @@ output_dir
    /\ mpc' = "loop"
    /\ UNCHANGED <<classifier, extractor, result, input_exists, input_dir, todo,
                   filename, stdout, run, first_out>>

\* the process is killed from outside, at any step of a run
Kill ==
    /\ mpc \in {"start", "loop", "try", "dump", "except", "except_dump"}
    /\ mpc' = "killed"
    /\ UNCHANGED <<classifier, extractor, result, input_exists, input_dir,
                   output_dir, todo, filename, stdout, run, first_out>>

\* main is started again on the unchanged input directory
Rerun ==
    /\ mpc = "done"
    /\ run < MaxRuns
    /\ run' = run + 1
    /\ first_out' = IF run = 1 THEN output_dir ELSE first_out
    /\ mpc' = "start"
    /\ todo' = {}
    /\ filename' = <<>>
    /\ stdout' = <<>>
    /\ UNCHANGED <<classifier, extractor, result, input_exists, input_dir,
                   output_dir>>

NextMain ==
    \/ Start \/ LoopNext \/ LoopEnd \/ TryExtract \/ Dump
    \/ Except \/ ExceptDump \/ Kill \/ Rerun

SpecMain == InitMain /\ [][NextMain]_vars

-----------------------------------------------------------------------------
(* Properties of extract_title_and_headings, stated on the collected spans *)
(* and the returned value without the operators that compute the result.   *)

Returned == epc = "returned"

HeadingIdx == {i \in DOMAIN text_blocks : is_heading_text(text_blocks[i].text)}

\* S: the distinct font sizes of the spans that pass is_heading_text
CandidateSizes == {text_blocks[i].size : i \in HeadingIdx}

\* 1 for the largest element of S, 2 for the second largest, ...
RankIn(S, z) == Cardinality({s \in S : s > z}) + 1

SizeRank(z) == RankIn(CandidateSizes, z)

LabelOfRank(k) == <<"H1", "H2", "H3">>[k]

LabelLeq(a, b) ==
    <<a, b>> \in { <<"H1","H1">>, <<"H1","H2">>, <<"H1","H3">>,
                   <<"H2","H2">>, <<"H2","H3">>, <<"H3","H3">> }

OutlineIdx == DOMAIN result.outline

\* C1: no entry of the returned outline has the returned title as its text.
C1_TitleNotInOutline ==
    Returned => \A k \in OutlineIdx : result.outline[k].text # result.title

\* C1's case: a span carries the title text, passes is_heading_text and has
\* a size with a level, while other spans did enter the outline.
C1_Witness ==
    /\ Returned
    /\ result.outline # <<>>
    /\ \E i \in HeadingIdx :
          /\ text_blocks[i].text = result.title
          /\ SizeRank(text_blocks[i].size) <= 3

\* C3: a document whose page 1 yields no span returns "Unknown Title" and
\* an empty outline, whatever the later pages and the metadata hold.
C3_EmptyFirstPage ==
    (Returned /\ \A i \in DOMAIN text_blocks : text_blocks[i].page # 1)
        => result = [title |-> UnknownTitle, outline |-> <<>>]

\* C4: for a document with at least one span, the title is the metadata
\* title verbatim when that is non-empty and not "Unknown", and otherwise
\* the title the same spans give when there is no metadata title.
C4_MetadataTitle ==
    (Returned /\ text_blocks # <<>>)
        => IF metadata # <<>> /\ metadata # Unknown
           THEN result.title = metadata
           ELSE result.title = ExtractResult(text_blocks, <<>>).title

FirstPageIdx == {i \in DOMAIN text_blocks : text_blocks[i].page = 1}

\* span i comes before span j in the order "descending size, then ascending
\* bbox[1]", spans with equal keys staying in their collected order
ComesBefore(i, j) ==
    LET a == text_blocks[i]
        b == text_blocks[j]
    IN  \/ a.size > b.size
        \/ a.size = b.size /\ a.y < b.y
        \/ a.size = b.size /\ a.y = b.y /\ i < j

OrderRank(i) == Cardinality({j \in FirstPageIdx : ComesBefore(j, i)}) + 1

TitleCandidates ==
    {i \in FirstPageIdx :
        /\ OrderRank(i) <= 5
        /\ is_heading_text(text_blocks[i].text)
        /\ Len(text_blocks[i].text) > 3}

ScanTitle ==
    IF TitleCandidates # {}
    THEN text_blocks[CHOOSE i \in TitleCandidates :
                        \A j \in TitleCandidates : OrderRank(i) <= OrderRank(j)].text
    ELSE text_blocks[CHOOSE i \in FirstPageIdx : OrderRank(i) = 1].text

\* C5: with no usable metadata title (absent, empty or "Unknown") and a span
\* on page 1, the title is the first of the first 5 page-1 spans, by
\* descending size then ascending top, that passes is_heading_text and is
\* longer than 3, and the first span of that order when none of them does.
C5_BodyScanTitle ==
    (Returned /\ (metadata = <<>> \/ metadata = Unknown) /\ FirstPageIdx # {})
        => result.title = ScanTitle

\* The same statement for an absent or empty metadata title only.
BodyScanTitleWithoutMetadata ==
    (Returned /\ metadata = <<>> /\ FirstPageIdx # {})
        => result.title = ScanTitle

\* the entry span i gives when it enters the outline, S being the
\* candidate sizes
EntryOf(S, i) ==
    [level |-> LabelOfRank(RankIn(S, text_blocks[i].size)),
     text  |-> text_blocks[i].text,
     page  |-> text_blocks[i].page]

\* C6: the outline holds exactly one entry per heading candidate whose size
\* is among the 3 largest candidate sizes (the title text apart), with
\* level H1, H2 or H3 for the 1st, 2nd or 3rd largest size; candidates of
\* any other size give no entry, and with k < 3 candidate sizes only the
\* first k labels occur.
C6_LevelsBySizeRank ==
    Returned =>
        LET H == HeadingIdx
            S == {text_blocks[i].size : i \in H}
            E == {i \in H : /\ RankIn(S, text_blocks[i].size) <= 3
                            /\ text_blocks[i].text # result.title}
            entry == [i \in E |-> EntryOf(S, i)]
        IN  /\ \A k \in OutlineIdx :
                  /\ \E i \in E : entry[i] = result.outline[k]
                  /\ \E r \in 1..3 : /\ r <= Cardinality(S)
                                     /\ result.outline[k].level = LabelOfRank(r)
            /\ \A i \in E :
                  Cardinality({k \in OutlineIdx : result.outline[k] = entry[i]})
                    = Cardinality({j \in E : entry[j] = entry[i]})
            /\ Len(result.outline) = Cardinality(E)

\* C6's case: four candidate sizes, entries in the outline, and a candidate
\* other than the title left out because its size is the fourth.
C6_Witness ==
    /\ Returned
    /\ Cardinality(CandidateSizes) >= 4
    /\ result.outline # <<>>
    /\ \E i \in HeadingIdx :
          /\ SizeRank(text_blocks[i].size) > 3
          /\ text_blocks[i].text # result.title

\* C7: consecutive outline entries are in ascending page order and, on one
\* page, in ascending level order.
C7_OutlineSorted ==
    Returned =>
        \A k \in OutlineIdx :
            k + 1 \in OutlineIdx =>
                LET a == result.outline[k]
                    b == result.outline[k+1]
                IN  \/ a.page < b.page
                    \/ a.page = b.page /\ LabelLeq(a.level, b.level)

\* C7's case: two spans of one page enter the outline, the smaller-sized one
\* collected first, so that sorting has to move them.
C7_Witness ==
    /\ Returned
    /\ Len(result.outline) >= 2
    /\ \E i, j \in HeadingIdx :
          /\ i < j
          /\ text_blocks[i].page = text_blocks[j].page
          /\ text_blocks[i].size < text_blocks[j].size
          /\ SizeRank(text_blocks[i].size) <= 3
          /\ text_blocks[i].text # result.title
          /\ text_blocks[j].text # result.title

-----------------------------------------------------------------------------
(* Properties of main.                                                     *)

PdfNames == {f \in DOMAIN input_dir : IsPdfName(f)}

\* the file content json.dump gives the fixed placeholder result
PlaceholderFile ==
    JsonChunks([title   |-> <<"E","r","r","o","r"," ","P","r","o","c","e","s","s",
                              "i","n","g"," ","D","o","c","u","m","e","n","t">>,
                outline |-> <<>>])

Mentioned(f) == \E k \in DOMAIN stdout : stdout[k].file = f

\* C2: when the handler has finished with a file whose extraction raised,
\* that file's output holds exactly the placeholder result and the loop goes
\* on; when the run ends, every .pdf of the input directory was visited and
\* has its <basename>.json in the output directory.
C2_FailureRecovered ==
    /\ ( /\ mpc \in {"loop", "done"}
         /\ filename \in PdfNames
         /\ input_dir[filename].kind = "corrupt" )
          => /\ OutputName(filename) \in DOMAIN output_dir
             /\ output_dir[OutputName(filename)] = PlaceholderFile
    /\ mpc = "done"
          => \A f \in PdfNames :
                /\ Mentioned(f)
                /\ OutputName(f) \in DOMAIN output_dir
                /\ output_dir[OutputName(f)] # <<>>

\* C2's case: a run that ended after a file whose extraction raised was
\* followed by a file that was processed.
C2_Witness ==
    /\ mpc = "done"
    /\ \E i, j \in DOMAIN stdout :
          /\ i < j
          /\ stdout[i].msg = "Error processing"
          /\ input_dir[stdout[i].file].kind = "corrupt"
          /\ stdout[j].msg = "Processed"

\* C8: a second run on the unchanged input directory leaves the output
\* directory as the first run left it, whatever the names and whatever the
\* order of the listing in either run.
C8_SecondRunSameOutput ==
    (run = 2 /\ mpc = "done") => output_dir = first_out

\* The same statement for input directories in which no two .pdf names give
\* the same output name.
SecondRunSameOutputWithoutNameClash ==
    ( /\ run = 2 /\ mpc = "done"
      /\ \A f, g \in PdfNames : OutputName(f) = OutputName(g) => f = g )
        => output_dir = first_out

\* the results whose complete JSON document a file of the output directory
\* may hold
FullResults ==
    {basic_result} \cup
    {ExtractDocument(input_dir[f]) : f \in {g \in PdfNames : input_dir[g].kind = "pdf"}}

\* C9: at every point of a run, interrupted or not, every file of the
\* output directory holds the complete JSON document of a computed result.
C9_NoPartialOutput ==
    \A name \in DOMAIN output_dir :
        \E r \in FullResults : output_dir[name] = JsonChunks(r)

-----------------------------------------------------------------------------
(* Properties of is_heading_text.                                          *)

Classified == verdict # "unset"

\* at least one letter and no lower-case letter
FullyUpperCase(s) ==
    /\ \E i \in DOMAIN s : s[i] \in UpperCh \cup LowerCh \cup UncasedLetterCh
    /\ \A i \in DOMAIN s : s[i] \notin LowerCh

\* at least one upper-case letter and no lower-case letter
UpperCaseWithCasedLetter(s) ==
    /\ \E i \in DOMAIN s : s[i] \in UpperCh
    /\ \A i \in DOMAIN s : s[i] \notin LowerCh

\* the length of s without its leading and trailing whitespace
TrimmedLen(s) ==
    LET inked == {i \in DOMAIN s : s[i] \notin SpaceCh} IN
    IF inked = {} THEN 0
    ELSE (CHOOSE i \in inked : \A j \in inked : j <= i)
           - (CHOOSE i \in inked : \A j \in inked : i <= j) + 1

\* C10 as stated: every fully upper-case string (at least one letter, no
\* lower-case letter) of length greater than 2 is classified a heading.
C10_UpperCaseIsHeading ==
    (Classified /\ FullyUpperCase(text) /\ Len(text) > 2) => verdict = "True"

\* C10 amended: every string that is upper-case as str.isupper defines it
\* (at least one upper-case letter, no lower-case letter) and whose length
\* without leading and trailing whitespace is greater than 2 is classified
\* a heading.
C10_TrimmedUpperCaseIsHeading ==
    (Classified /\ UpperCaseWithCasedLetter(text) /\ TrimmedLen(text) > 2)
        => verdict = "True"

\* The amendment of the length alone does not hold: letters without case do
\* not make a string upper-case for str.isupper.
TrimmedFullyUpperCaseIsHeading ==
    (Classified /\ FullyUpperCase(text) /\ TrimmedLen(text) > 2) => verdict = "True"

\* C10's case: a fully upper-case argument, padded with whitespace and still
\* longer than 2 once trimmed, was classified a heading.
C10_Witness ==
    /\ verdict = "True"
    /\ UpperCaseWithCasedLetter(text)
    /\ TrimmedLen(text) > 2
    /\ Len(text) > TrimmedLen(text)

=============================================================================
